---- MODULE Spec2Model ----
(***************************************************************************)
(* legion/class.js: the Class extension engine (extend, implement,         *)
(* _extendSingle, createParent) and the members of the base Class (init,   *)
(* mixin, _bindGame, serialize).                                           *)
(*                                                                         *)
(* JavaScript values are records [t, n, s]: t is the typeof-like tag, n    *)
(* the number or the index of a function object in the table fns, s the    *)
(* string.  Objects are maps from Keys to values, Absent marking a key the *)
(* object does not have.  A Type is an entry of the table types: the own   *)
(* properties of its prototype object and the Type its prototype object    *)
(* was instantiated from.  last records the last operation and what it     *)
(* did, thrown whether an internal instantiation ever threw.               *)
(***************************************************************************)
EXTENDS Integers, Sequences, FiniteSets, TLC

VARIABLES fns, types, registry, extending, inst, last, thrown

vars == <<fns, types, registry, extending, inst, last, thrown>>

\* ---------------------------------------------------------------- bounds
MaxTypes == 3
MaxDepth == 1
MaxInstTypes == 2

\* ---------------------------------------------------------------- values
Null == [t |-> "null", n |-> 0, s |-> ""]
Undefined == [t |-> "undefined", n |-> 0, s |-> ""]
Absent == [t |-> "absent", n |-> 0, s |-> ""]
Num(i) == [t |-> "number", n |-> i, s |-> ""]
Str(x) == [t |-> "string", n |-> 0, s |-> x]
Fn(i) == [t |-> "function", n |-> i, s |-> ""]

IsFunction(v) == v.t = "function"

\* for-in visits the keys in this order
KeyOrder ==
  <<"className", "game", "id", "clientID", "init", "mixin", "_bindGame",
    "serialize", "m", "x", "parent">>

Keys == {KeyOrder[i] : i \in DOMAIN KeyOrder}

EmptyObject == [k \in Keys |-> Absent]

Obj(f) == [k \in Keys |-> IF k \in DOMAIN f THEN f[k] ELSE Absent]

ClassNames == {"Class", "A", "B"}

\* ------------------------------------------------------- function objects
\* A function object is either the closure createParent returns (kind
\* "wrap", with its childFunction and parentFunction) or a function written
\* in a definition (kind "raw", body naming what it does).
Raw(b, k) == [kind |-> "raw", body |-> b, key |-> k, child |-> 0, parent |-> 0]

createParent(childFunction, parentFunction) ==
  [kind |-> "wrap", body |-> "", key |-> "", child |-> childFunction,
   parent |-> parentFunction]

\* The functions of the base Class definition (1..4) and the functions the
\* definitions below are written with: 5 returns its own value; 6 calls
\* this.m(n - 1) when n > 0, then this.parent(n); 7 counts its runs, then
\* calls this.parent(properties); 8 returns its own value.
BaseFns ==
  << Raw("init", "init"), Raw("mixin", "mixin"),
     Raw("_bindGame", "_bindGame"), Raw("serialize", "serialize"),
     Raw("leaf", "m"), Raw("rec", "m"), Raw("userInit", "init"),
     Raw("leaf", "") >>

\* the definition object handed to _extendSingle for the base Class
ClassDefinition ==
  Obj([className |-> Str("Class"), game |-> Null, id |-> Null,
       clientID |-> Null, init |-> Fn(1), mixin |-> Fn(2),
       _bindGame |-> Fn(3), serialize |-> Fn(4)])

\* ------------------------------------------------------- property lookup
RECURSIVE ProtoGet(_, _, _)
\* the value of key on the prototype object of Type ty, through the chain
ProtoGet(T, ty, key) ==
  IF ty = 0 THEN Absent
  ELSE IF T[ty].own[key] # Absent THEN T[ty].own[key]
  ELSE ProtoGet(T, T[ty].parent, key)

\* the object for-in and property reads see: own properties over inherited
Flat(own, T, ty) ==
  [k \in Keys |-> IF own[k] # Absent THEN own[k] ELSE ProtoGet(T, ty, k)]

RECURSIVE Ancestors(_, _)
\* the Types an instance of ty is an instanceof, ty itself excepted
Ancestors(T, ty) ==
  IF ty = 0 \/ T[ty].parent = 0 THEN {}
  ELSE {T[ty].parent} \cup Ancestors(T, T[ty].parent)

RECURSIVE OwnerOf(_, _, _)
\* the Type, from ty up the chain, whose prototype object holds key itself
OwnerOf(T, ty, key) ==
  IF ty = 0 THEN 0
  ELSE IF T[ty].own[key] # Absent THEN ty
  ELSE OwnerOf(T, T[ty].parent, key)

\* ------------------------------------------------------------ interpreter
\* The properties handed to the constructor and to mixin; 0 is no argument.
Props ==
  << Obj([serialize |-> Fn(8), x |-> Num(7)]),
     Obj([serialize |-> Num(7), className |-> Fn(8)]),
     Obj([x |-> Fn(8)]) >>

PropsOf(p) == IF p = 0 THEN EmptyObject ELSE Props[p]

\* The context objects handed to _bindGame: 0 is a falsy argument; the
\* others answer _getObjectID() with oid and carry clientID cid.
Games ==
  << [oid |-> Num(1), cid |-> Null],
     [oid |-> Num(2), cid |-> Str("c1")],
     [oid |-> Num(3), cid |-> Str("c2")],
     [oid |-> Num(4), cid |-> Undefined] >>

GameValue(g) == IF g = 0 THEN Null ELSE [t |-> "object", n |-> g, s |-> "game"]

\* the arguments of a call: p (see Props), safe, n, game (see Games)
NoArgs == [p |-> 0, safe |-> FALSE, n |-> 0, game |-> 0]

\* A call in progress on one instance: own are the instance's own
\* properties, ty its Type.  The other fields record what the call did:
\* runs, the written functions in the order they started; calls, one record
\* per this.parent() or this.method() made by a written function; counter,
\* the runs of the counting init; seen, the arguments each init received;
\* assigned, the keys _bindGame assigned; warned, the warnings logged;
\* ret, the value the last finished call returned; implRet, the value the
\* last finished written function returned; key and lvl, the method being
\* run and the Type whose prototype slot is being run (0: not followed).
NewCall(own, ty) ==
  [own |-> own, ty |-> ty, runs |-> <<>>, calls |-> <<>>, counter |-> 0,
   seen |-> <<>>, assigned |-> {}, warned |-> 0, ret |-> Undefined,
   implRet |-> Undefined, key |-> "", lvl |-> 0]

\* this[key]
Get(h, c, key) ==
  LET v == Flat(c.own, h.types, c.ty)[key] IN IF v = Absent THEN Undefined ELSE v

\* key in this
In(h, c, key) == Flat(c.own, h.types, c.ty)[key] # Absent

\* The function T(i-1) holds for the method when the slot being run is that
\* of Ti and both Types define the method as a function; 0 otherwise.
ExpectedParent(h, c) ==
  IF c.lvl = 0 \/ c.key = "" THEN 0
  ELSE LET p == h.types[c.lvl].parent IN
       IF p # 0 /\ IsFunction(h.types[c.lvl].own[c.key])
                /\ IsFunction(h.types[p].own[c.key])
       THEN h.types[p].own[c.key].n ELSE 0

\* the test of mixin: whether properties[key] is assigned to this[key]
MixinAssigns(h, c, properties, key, safe) ==
  ~IsFunction(properties[key]) \/ ~In(h, c, key) \/ ~safe

RECURSIVE MixinKeys(_, _, _, _, _)
\* the loop of mixin over the keys of properties, from position i
MixinKeys(h, c, properties, safe, i) ==
  IF i > Len(KeyOrder) THEN c
  ELSE LET key == KeyOrder[i] IN
       IF properties[key] = Absent THEN MixinKeys(h, c, properties, safe, i + 1)
       ELSE IF MixinAssigns(h, c, properties, key, safe)
       THEN MixinKeys(h, [c EXCEPT !.own[key] = properties[key]],
                      properties, safe, i + 1)
       ELSE MixinKeys(h, [c EXCEPT !.warned = @ + 1], properties, safe, i + 1)

bindGameBody_always(h, c, g) ==
  IF g = 0 THEN [c EXCEPT !.own["game"] = GameValue(g)]
  ELSE [c EXCEPT !.own["game"] = GameValue(g),
                 !.own["id"] = Games[g].oid,
                 !.own["clientID"] = Games[g].cid,
                 !.assigned = {"id", "clientID"}]

\* the body of _bindGame
bindGameBody(h, c, g) ==
  LET c1 == [c EXCEPT !.own["game"] = GameValue(g)] IN
  IF g = 0 THEN c1
  ELSE LET c2 == IF Get(h, c1, "id") = Null
                 THEN [c1 EXCEPT !.own["id"] = Games[g].oid,
                                 !.assigned = @ \cup {"id"}]
                 ELSE c1
       IN IF Get(h, c2, "clientID") = Null
          THEN [c2 EXCEPT !.own["clientID"] = Games[g].cid,
                          !.assigned = @ \cup {"clientID"}]
          ELSE c2

serializeBody(c) ==
  [c EXCEPT !.ret = [t |-> "object", n |-> 0, s |-> "serialized"]]

\* what the closure of createParent does with the value childFunction
\* returned, once this.parent is restored
WrapperReturn(returnValue) == returnValue

WrapperRestore_keep(tmp, parentFunction) == parentFunction

\* what the closure of createParent leaves in this.parent: tmp, the value
\* saved on entry
WrapperRestore(tmp, parentFunction) == tmp

RECURSIVE Invoke(_, _, _, _)
RECURSIVE CallFrom(_, _, _, _, _)

\* The written function f calls this[name](...), name being "parent" for
\* this.parent(...); one record of the call is kept.
CallFrom(h, c, f, name, a) ==
  LET before == Get(h, c, "parent")
      record(callee, expected, done) ==
        [done EXCEPT
           !.key = c.key, !.lvl = c.lvl,
           !.calls = Append(@, [name |-> name, caller |-> f,
                                callee |-> callee, lvl |-> c.lvl,
                                expected |-> expected, got |-> done.ret,
                                implRet |-> done.implRet, before |-> before,
                                after |-> Get(h, done, "parent")])]
      call(callee, expected) ==
        record(callee, expected,
               Invoke(h, callee,
                      [c EXCEPT
                         !.key = IF name = "parent" THEN c.key ELSE name,
                         !.lvl = IF name = "parent"
                                 THEN (IF expected # 0 /\ expected = callee
                                       THEN h.types[c.lvl].parent ELSE 0)
                                 ELSE (IF c.own[name] # Absent THEN 0
                                       ELSE OwnerOf(h.types, c.ty, name))],
                      a))
  IN call(Get(h, c, name).n,
          IF name = "parent" THEN ExpectedParent(h, c) ELSE 0)

\* The function object f is applied to the instance of c with arguments a.
Invoke(h, f, c, a) ==
  LET fr == h.fns[f]
      started == [c EXCEPT !.runs = Append(@, f)]
      \* the closure of createParent: this.parent = tmp; return returnValue
      restored(tmp, c2) ==
        [c2 EXCEPT !.own["parent"] = WrapperRestore(tmp, Fn(fr.parent)),
                   !.ret = WrapperReturn(c2.ret)]
      returning(d, value) == [d EXCEPT !.ret = value]
      \* a written function returns a value made of its own number and of
      \* the value this.parent() gave it
      received(d) ==
        returning(d, Num(f + 10 * (IF d.ret.t = "number" THEN d.ret.n ELSE 0)))
      \* this.parent(arguments) when there is one
      viaParent(cc) ==
        IF IsFunction(Get(h, cc, "parent"))
        THEN received(CallFrom(h, cc, f, "parent", a))
        ELSE returning(cc, Num(f))
      implemented(out) == [out EXCEPT !.implRet = out.ret]
  IN
  IF fr.kind = "wrap" THEN
    \* var tmp = this.parent; this.parent = parentFunction;
    \* returnValue = childFunction.apply(this, arguments)
    restored(Get(h, c, "parent"),
             Invoke(h, fr.child, [c EXCEPT !.own["parent"] = Fn(fr.parent)], a))
  ELSE
    implemented(
      CASE fr.body = "init" ->
             \* init: this.mixin(properties, true)
             returning(CallFrom(h, [c EXCEPT !.seen = Append(@, a.p)], f,
                                "mixin", [a EXCEPT !.safe = TRUE]),
                       Undefined)
        [] fr.body = "mixin" ->
             returning(MixinKeys(h, c, PropsOf(a.p), a.safe, 1),
                       [t |-> "object", n |-> 0, s |-> "this"])
        [] fr.body = "_bindGame" ->
             returning(bindGameBody(h, c, a.game), Undefined)
        [] fr.body = "serialize" -> serializeBody(c)
        [] fr.body = "leaf" -> returning(started, Num(f))
        [] fr.body = "rec" ->
             IF a.n > 0 /\ IsFunction(Get(h, started, fr.key))
             THEN viaParent(CallFrom(h, started, f, fr.key,
                                     [a EXCEPT !.n = a.n - 1]))
             ELSE viaParent(started)
        [] fr.body = "userInit" ->
             viaParent([started EXCEPT !.counter = @ + 1,
                                       !.seen = Append(@, a.p)]))

\* ------------------------------------------------------------ the engine
\* The constructor of every Type (var Class = function() {...}): init is
\* applied to the new instance unless extending is set.  inits counts the
\* applications of init made by the constructor.
ClassCtor_alwaysInit(h, ext, ty, a) ==
  LET c == NewCall(EmptyObject, ty) IN
  IF ty # 0
  THEN [c |-> Invoke(h, Get(h, c, "init").n,
                     [c EXCEPT !.key = "init",
                               !.lvl = OwnerOf(h.types, ty, "init")],
                     a),
        inits |-> 1]
  ELSE [c |-> c, inits |-> 0]

ClassCtor(h, ext, ty, a) ==
  LET c == NewCall(EmptyObject, ty) IN
  IF ~ext
  THEN [c |-> Invoke(h, Get(h, c, "init").n,
                     [c EXCEPT !.key = "init",
                               !.lvl = OwnerOf(h.types, ty, "init")],
                     a),
        inits |-> 1]
  ELSE [c |-> c, inits |-> 0]

\* The definitions handed to extend and implement.
Defs ==
  << Obj([className |-> Str("A"), m |-> Fn(5), x |-> Num(1)]),
     Obj([init |-> Fn(7)]),
     Obj([m |-> Fn(6)]) >>

\* the object literal a child of kind "object" stands for
ObjectOf(i) == IF i = 0 THEN ClassDefinition ELSE Defs[i]

\* The functions other than Types handed to implement: own are the
\* properties the constructor body assigns to this, proto those of the
\* function's prototype object; throws, whether the constructor throws.
PlainCtors ==
  << [own |-> Obj([x |-> Num(2)]),
      proto |-> Obj([className |-> Str("B"), m |-> Fn(8)]),
      throws |-> FALSE],
     [own |-> EmptyObject, proto |-> EmptyObject, throws |-> TRUE] >>

\* A definition whose functions call this.parent() is written for a Type
\* that has a function to override.
Applicable(h, ty, d) ==
  \A k \in Keys :
    (IsFunction(d[k]) /\ h.fns[d[k].n].body \in {"rec", "userInit"})
      => IsFunction(ProtoGet(h.types, ty, k))

\* a child is [kind, i]: "object" Defs[i], "type" the Type i, "plain"
\* PlainCtors[i], "prim" a value that is no object
Child(kind, i) == [kind |-> kind, i |-> i]

IsFunctionChild(child) == child.kind \in {"type", "plain"}

\* child instanceof Object
InstanceofObject(child) == child.kind \in {"object", "type", "plain"}

\* for (var key in child): the keys of an object [own, inh], inherited
\* enumerable properties included
ForIn_ownOnly(o) == {k \in Keys : o.own[k] # Absent}

ForIn(o) == {k \in Keys : o.own[k] # Absent \/ o.inh[k] # Absent}

\* child[key]
ChildGet(o, key) == IF o.own[key] # Absent THEN o.own[key] ELSE o.inh[key]

\* typeof child === 'function': child = new child(), under extending.  The
\* result is the object the loop of _extendSingle reads, [own, inh], with
\* what the instantiation did (inits, counter) and whether it threw.
Instantiate(h, child) ==
  LET instance(r) ==
        [o |-> [own |-> r.c.own, inh |-> Flat(EmptyObject, h.types, child.i)],
         inits |-> r.inits, counter |-> r.c.counter, threw |-> FALSE]
  IN
  CASE child.kind = "object" ->
         [o |-> [own |-> ObjectOf(child.i), inh |-> EmptyObject],
          inits |-> 0, counter |-> 0, threw |-> FALSE]
    [] child.kind = "prim" ->
         [o |-> [own |-> EmptyObject, inh |-> EmptyObject],
          inits |-> 0, counter |-> 0, threw |-> FALSE]
    [] child.kind = "type" -> instance(ClassCtor(h, TRUE, child.i, NoArgs))
    [] child.kind = "plain" ->
         [o |-> [own |-> PlainCtors[child.i].own,
                 inh |-> PlainCtors[child.i].proto],
          inits |-> 0, counter |-> 0, threw |-> PlainCtors[child.i].throws]

\* One turn of the loop of _extendSingle: st is [own, fns], the own
\* properties of Class.prototype so far and the function table.
AssignKey(st, T, self, o, key) ==
  LET value == ChildGet(o, key)
      current == IF st.own[key] # Absent THEN st.own[key]
                 ELSE ProtoGet(T, self, key)
  IN IF IsFunction(value) /\ IsFunction(current)
     THEN [own |-> [st.own EXCEPT ![key] = Fn(Len(st.fns) + 1)],
           fns |-> Append(st.fns, createParent(value.n, current.n))]
     ELSE [st EXCEPT !.own[key] = value]

RECURSIVE AssignKeys(_, _, _, _, _)
AssignKeys(st, T, self, o, i) ==
  IF i > Len(KeyOrder) THEN st
  ELSE IF KeyOrder[i] \in ForIn(o)
       THEN AssignKeys(AssignKey(st, T, self, o, KeyOrder[i]), T, self, o, i + 1)
       ELSE AssignKeys(st, T, self, o, i + 1)

Register_keepFirst(reg, className, ty) ==
  IF className.t = "string" /\ reg[className.s] = 0
  THEN [reg EXCEPT ![className.s] = ty] ELSE reg

\* legion._classes[Class.prototype.className] = Class
Register(reg, className, ty) ==
  IF className.t = "string" THEN [reg EXCEPT ![className.s] = ty] ELSE reg

\* Class.prototype = new this(): the Type the new prototype object is an
\* instance of
NewThis_child(self, child) == IF child.kind = "type" THEN child.i ELSE self

NewThis(self, child) == self

\* the value of extending when _extendSingle is left: reset after each
\* internal instantiation, left set when the instantiation throws
ExtendingAfter(threw) == threw

\* _extendSingle called on the Type self with child, in heap h and registry
\* reg.  result is the new Type, 0 when the call threw.
_extendSingle(h, reg, self, child) ==
  LET from == NewThis(self, child)
      Class == Len(h.types) + 1
      \* the loop is over, st being [own, fns]: register and return Class
      finish(made, proto, st, T2) ==
        [h |-> [fns |-> st.fns, types |-> T2],
         registry |-> Register(reg, ProtoGet(T2, Class, "className"), Class),
         result |-> Class, threw |-> FALSE,
         extending |-> ExtendingAfter(FALSE),
         inits |-> made.inits + proto.inits,
         counter |-> made.counter + proto.c.counter]
      loop(made, proto, st) ==
        finish(made, proto, st,
               Append(h.types, [own |-> st.own, parent |-> from]))
      \* Class.prototype = new this(), then the loop over the keys of child
      prototype(made, proto) ==
        loop(made, proto,
             AssignKeys([own |-> proto.c.own, fns |-> h.fns], h.types, from,
                        made.o, 1))
      instantiated(made) ==
        IF made.threw
        THEN [h |-> h, registry |-> reg, result |-> 0, threw |-> TRUE,
              extending |-> ExtendingAfter(TRUE), inits |-> made.inits,
              counter |-> made.counter]
        ELSE prototype(made, ClassCtor(h, TRUE, from, NoArgs))
  IN instantiated(Instantiate(h, child))

RECURSIVE ImplementList(_, _, _, _, _)
\* the loop of implement over the array child, from position i, _this
\* being the Type reached so far
ImplementList(r, child, i, inits, counter) ==
  LET next(n) ==
        ImplementList(n, child, i + 1, inits + n.inits, counter + n.counter)
  IN IF i > Len(child) \/ r.threw
     THEN [r EXCEPT !.inits = inits, !.counter = counter]
     ELSE next(_extendSingle(r.h, r.registry, r.result, child[i]))

\* ---------------------------------------------------------------- state
Heap == [fns |-> fns, types |-> types]

\* what the last operation was and what it did
NoLast ==
  [op |-> "none", self |-> 0, child |-> <<>>, list |-> FALSE, result |-> 0,
   made |-> 0, registered |-> {}, threw |-> FALSE, inits |-> 0,
   counter |-> 0, runs |-> <<>>, calls |-> <<>>,
   seen |-> <<>>, ret |-> Undefined, props |-> 0, safe |-> FALSE, n |-> 0,
   game |-> 0, warned |-> 0]

\* The module is loaded: the base Class is the result of _extendSingle
\* called on an empty function with the base definition.
Init ==
  \E r \in {_extendSingle([fns |-> BaseFns, types |-> <<>>],
                          [c \in ClassNames |-> 0], 0, Child("object", 0))} :
     /\ fns = r.h.fns
     /\ types = r.h.types
     /\ registry = r.registry
     /\ extending = r.extending
     /\ inst = [ty |-> 0, own |-> EmptyObject, assigned |-> {}]
     /\ last = NoLast
     /\ thrown = FALSE

\* the Types and the other functions
FunctionChildren ==
  {Child("type", i) : i \in 1..Len(types)}
    \cup {Child("plain", i) : i \in 1..Len(PlainCtors)}

Children ==
  {Child("object", i) : i \in 1..Len(Defs)} \cup FunctionChildren
    \cup {Child("prim", 0)}

ListItems ==
  {Child("object", 1), Child("object", 3)}
    \cup {Child("type", i) : i \in 1..Len(types)}

Lists == {<<>>} \cup {<<a>> : a \in ListItems}
           \cup {<<a, b>> : <<a, b>> \in ListItems \X ListItems}

ChildOK(h, self, child) ==
  child.kind = "object" => Applicable(h, self, ObjectOf(child.i))

RECURSIVE ListOK(_, _, _, _)
ListOK(h, self, child, i) ==
  LET rest(n) == n.threw \/ ListOK(n.h, n.result, child, i + 1)
  IN IF i > Len(child) THEN TRUE
     ELSE /\ ChildOK(h, self, child[i])
          /\ rest(_extendSingle(h, registry, self, child[i]))

Commit(r, op, self, child, list) ==
  /\ fns' = r.h.fns
  /\ types' = r.h.types
  /\ registry' = r.registry
  /\ extending' = r.extending
  /\ thrown' = (thrown \/ r.threw)
  /\ last' = [NoLast EXCEPT !.op = op, !.self = self, !.child = child,
                            !.list = list, !.result = r.result,
                            !.made = Len(r.h.types) - Len(types),
                            !.registered =
                               {c \in ClassNames : r.registry[c] # registry[c]},
                            !.threw = r.threw, !.inits = r.inits,
                            !.counter = r.counter]
  /\ UNCHANGED inst

\* Type.extend(child)
Extend(self, child) ==
  /\ ChildOK(Heap, self, child)
  /\ IF InstanceofObject(child)
     THEN /\ Len(types) < MaxTypes
          /\ \E r \in {_extendSingle(Heap, registry, self, child)} :
               Commit(r, "extend", self, <<child>>, FALSE)
     ELSE Commit([h |-> Heap, registry |-> registry, result |-> 0,
                  threw |-> FALSE, extending |-> extending, inits |-> 0,
                  counter |-> 0],
                 "extend", self, <<child>>, FALSE)

\* Type.implement(child), child not an array
Implement(self, child) ==
  /\ ChildOK(Heap, self, child)
  /\ Len(types) < MaxTypes
  /\ \E r \in {_extendSingle(Heap, registry, self, child)} :
       Commit(r, "implement", self, <<child>>, FALSE)

\* Type.implement(child), child an array
ImplementArray(self, child) ==
  /\ Len(types) < MaxTypes
  /\ ListOK(Heap, self, child, 1)
  /\ \E r \in {ImplementList([h |-> Heap, registry |-> registry,
                              result |-> self, threw |-> FALSE,
                              extending |-> extending, inits |-> 0,
                              counter |-> 0], child, 1, 0, 0)} :
       Commit(r, "implement", self, child, TRUE)

\* inst = new Type(properties)
New(ty, p) ==
  \E r \in {ClassCtor(Heap, extending, ty, [NoArgs EXCEPT !.p = p])} :
     /\ inst' = [ty |-> ty, own |-> r.c.own, assigned |-> {}]
     /\ last' = [NoLast EXCEPT !.op = "new", !.self = ty, !.props = p,
                               !.inits = r.inits, !.counter = r.c.counter,
                               !.runs = r.c.runs, !.calls = r.c.calls,
                               !.seen = r.c.seen, !.warned = r.c.warned]
     /\ UNCHANGED <<fns, types, registry, extending, thrown>>

\* inst[key](a), key naming a function of the instance
CallMethod(key, a) ==
  /\ inst.ty # 0
  /\ IsFunction(Get(Heap, NewCall(inst.own, inst.ty), key))
  /\ \E d \in {CallFrom(Heap, NewCall(inst.own, inst.ty), 0, key, a)} :
       /\ inst' = [inst EXCEPT !.own = d.own,
                                !.assigned = @ \cup d.assigned]
       /\ last' = [NoLast EXCEPT !.op = key, !.self = inst.ty,
                                 !.props = a.p, !.n = a.n, !.safe = a.safe,
                                 !.game = a.game, !.counter = d.counter,
                                 !.runs = d.runs, !.calls = d.calls,
                                 !.ret = d.ret, !.warned = d.warned]
  /\ UNCHANGED <<fns, types, registry, extending, thrown>>

\* inst.m(n)
Call(n) == CallMethod("m", [NoArgs EXCEPT !.n = n])

\* inst.mixin(Props[p], safe)
Mixin(p, safe) == CallMethod("mixin", [NoArgs EXCEPT !.p = p, !.safe = safe])

\* inst._bindGame(game)
BindGame(g) == CallMethod("_bindGame", [NoArgs EXCEPT !.game = g])

\* Type.extend(definition) while few Types exist
ExtendFew(self, i) ==
  /\ Len(types) < MaxInstTypes
  /\ Extend(self, Child("object", i))

Next ==
  \/ \E self \in 1..Len(types) : \E i \in 1..Len(Defs) :
        Extend(self, Child("object", i))
  \/ \E self \in 1..Len(types) : \E child \in FunctionChildren :
        Implement(self, child)
  \/ \E self \in 1..Len(types) : \E child \in Lists :
        Len(types) + Len(child) <= MaxTypes /\ ImplementArray(self, child)
  \/ \E ty \in 1..Len(types) : \E p \in 0..1 : New(ty, p)
  \/ \E n \in 0..MaxDepth : Call(n)

Spec == Init /\ [][Next]_vars

\* the Types alone: extend and implement
NextTypes ==
  \/ \E self \in 1..Len(types) : \E child \in Children : Extend(self, child)
  \/ \E self \in 1..Len(types) : \E child \in FunctionChildren :
        Implement(self, child)
  \/ \E self \in 1..Len(types) : \E child \in Lists : ImplementArray(self, child)

SpecTypes == Init /\ [][NextTypes]_vars

\* instances at work: construction, mixin and binding, over few Types
NextInst ==
  \/ \E self \in 1..Len(types) : \E i \in 1..Len(Defs) : ExtendFew(self, i)
  \/ \E ty \in 1..Len(types) : \E p \in 0..Len(Props) : New(ty, p)
  \/ \E p \in 0..Len(Props) : \E safe \in BOOLEAN : Mixin(p, safe)
  \/ \E g \in 0..Len(Games) : BindGame(g)

SpecInst == Init /\ [][NextInst]_vars

\* ----------------------------------------------------------------- claims

RECURSIVE Impl(_)
\* the function a closure of createParent ends up applying: the
\* implementation written in a definition
Impl(f) == IF fns[f].kind = "wrap" THEN Impl(fns[f].child) ELSE f

\* C1: in a chain of Types that each define the method as a function, each
\* this.parent() made while the slot of Ti runs applies exactly the
\* implementation T(i-1) holds for the method, and receives the value that implementation
\* returned.
C1_ParentRunsPreceding ==
  \A i \in DOMAIN last.calls :
    LET e == last.calls[i] IN
    (e.name = "parent" /\ e.expected # 0)
      => (Impl(e.callee) = Impl(e.expected) /\ e.got = e.implRet)

\* C2: while no internal instantiation has thrown, extend and implement run
\* no init (the constructor applies none, the counting init does not count),
\* and a construction applies init exactly once, every init run receiving
\* the constructor's arguments.
C2_InitOnlyOnConstruction ==
  ~thrown =>
    /\ last.op \in {"extend", "implement"}
         => (last.inits = 0 /\ last.counter = 0)
    /\ last.op = "new"
         => /\ last.inits = 1
            /\ Len(last.seen) >= 1
            /\ \A i \in DOMAIN last.seen : last.seen[i] = last.props

\* an instance of a Type extended from a Type with the counting init was
\* constructed with properties, and the init counted once
C2_Witness ==
  /\ ~thrown
  /\ last.op = "new"
  /\ last.props = 1
  /\ last.counter = 1
  /\ types[last.self].parent > 1
  /\ IsFunction(types[types[last.self].parent].own["init"])
  /\ inst.own["x"] = Num(7)

\* C10: every call of a function made by createParent leaves this.parent as
\* it was immediately before the call: the calls made from inside an
\* override (this.parent(), or the method again) and the call made from
\* outside; a new instance is left without a parent of its own.
C10_ParentRestored ==
  /\ \A i \in DOMAIN last.calls :
       LET e == last.calls[i] IN
       fns[e.callee].kind = "wrap" => e.after = e.before
  /\ last.op = "new" => inst.own["parent"] \in {Absent, Undefined}

\* the override called itself, then its parent, and found this.parent
\* unchanged after the inner call
C10_Witness ==
  /\ last.op = "m"
  /\ last.n = 1
  /\ \E i \in DOMAIN last.calls :
       LET e == last.calls[i] IN
       /\ e.name = "m" /\ e.caller # 0
       /\ fns[e.callee].kind = "wrap"
       /\ IsFunction(e.before)
       /\ e.after = e.before
       /\ \E j \in DOMAIN last.calls :
            /\ j > i
            /\ last.calls[j].name = "parent"
            /\ last.calls[j].caller = e.caller
            /\ last.calls[j].callee = e.before.n

\* the object the loop of _extendSingle read for the single child of the
\* last extend or implement
LastChildObject == Instantiate(Heap, last.child[1]).o

MergedKeys(ty) == {k \in Keys : types[ty].own[k] # Absent}

\* this[key] of inst
InstGet(key) == Flat(inst.own, types, inst.ty)[key]

\* C3, as stated: in safe mode mixin (and construction) skips a key
\* exactly when the instance holds a function there, and copies every other
\* key; without safe it copies every key.
C3_SkipsExistingFunctions ==
  [][/\ last'.op = "mixin" =>
          \A k \in Keys :
            PropsOf(last'.props)[k] # Absent =>
              IF last'.safe /\ IsFunction(InstGet(k))
              THEN inst'.own[k] = inst.own[k]
              ELSE inst'.own[k] = PropsOf(last'.props)[k]
     /\ last'.op = "new" =>
          \A k \in Keys :
            PropsOf(last'.props)[k] # Absent =>
              IF IsFunction(ProtoGet(types, inst'.ty, k))
              THEN inst'.own[k] = Absent
              ELSE inst'.own[k] = PropsOf(last'.props)[k]]_vars

\* C4: extend called with anything but a plain object returns no Type,
\* creates none and leaves the registry alone.
C4_ExtendOnlyPlainObjects ==
  (last.op = "extend" /\ last.child[1].kind # "object")
    => (last.result = 0 /\ last.made = 0 /\ last.registered = {})

\* C5, as stated: once a bind has assigned id (clientID), every later bind
\* leaves it unchanged.
C5_AssignedNeverReassigned ==
  [][last'.op = "_bindGame" =>
       /\ "id" \in inst.assigned => inst'.own["id"] = inst.own["id"]
       /\ "clientID" \in inst.assigned
            => inst'.own["clientID"] = inst.own["clientID"]]_vars

\* C5, amended: a bind leaves an id (clientID) that is not null unchanged,
\* and the game reference follows the call.
C5_NonNullNeverReassigned ==
  [][last'.op = "_bindGame" =>
       /\ InstGet("id") # Null => inst'.own["id"] = inst.own["id"]
       /\ InstGet("clientID") # Null
            => inst'.own["clientID"] = inst.own["clientID"]
       /\ inst'.own["game"] = GameValue(last'.game)]_vars

\* an instance bound to the third context, then to the second, kept the id
\* and clientID of the third
C5_Witness ==
  /\ last.op = "_bindGame" /\ last.game = 2
  /\ inst.own["id"] = Num(3)
  /\ inst.own["clientID"] = Str("c2")
  /\ inst.own["game"] = GameValue(2)

\* C6, as stated: implement given a function merges exactly the own
\* properties of its suppressed-constructor instance.
C6_OwnPropertiesOnly ==
  (last.op = "implement" /\ ~last.list /\ last.result # 0
     /\ IsFunctionChild(last.child[1]))
    => MergedKeys(last.result) = {k \in Keys : LastChildObject.own[k] # Absent}

\* C6, amended: implement given a function merges every enumerable property
\* of the instance, own or inherited: each is the new prototype's own
\* property, holding the instance's value or the closure createParent makes
\* of it.
C6_OwnAndInheritedProperties ==
  (last.op = "implement" /\ ~last.list /\ last.result # 0
     /\ IsFunctionChild(last.child[1]))
    => /\ MergedKeys(last.result) =
            {k \in Keys : LastChildObject.own[k] # Absent
                            \/ LastChildObject.inh[k] # Absent}
       /\ \A k \in MergedKeys(last.result) :
            LET v == ChildGet(LastChildObject, k)
                got == types[last.result].own[k]
            IN \/ got = v
               \/ /\ IsFunction(v) /\ IsFunction(got)
                  /\ fns[got.n].kind = "wrap"
                  /\ fns[got.n].child = v.n

\* implement given a plain function merged the property its constructor
\* assigns and the properties of its prototype
C6_Witness ==
  /\ last.op = "implement" /\ ~last.list /\ last.result # 0
  /\ last.child[1] = Child("plain", 1)
  /\ types[last.result].own["x"] = Num(2)
  /\ types[last.result].own["className"] = Str("B")
  /\ IsFunction(types[last.result].own["m"])

\* C7, as stated: the ancestors of the Type implement returns are the
\* receiver and the receiver's ancestors, nothing else.
C7_AncestorsOfReceiverOnly ==
  (last.op = "implement" /\ last.result # 0 /\ last.made > 0)
    => Ancestors(types, last.result) =
         {last.self} \cup Ancestors(types, last.self)

\* C7, amended: the ancestors are the receiver, its ancestors and the
\* intermediate Types made for the earlier items of a list; a Type given as
\* an item is an ancestor only when it is the receiver or one of its
\* ancestors.
C7_AncestorsWithIntermediates ==
  (last.op = "implement" /\ last.result # 0 /\ last.made > 0)
    => /\ Ancestors(types, last.result) =
            {last.self} \cup Ancestors(types, last.self)
              \cup ((last.result - last.made + 1)..(last.result - 1))
       /\ \A i \in DOMAIN last.child :
            (last.child[i].kind = "type"
               /\ last.child[i].i \in Ancestors(types, last.result))
              => last.child[i].i \in {last.self} \cup Ancestors(types, last.self)

\* implement given a list of two Types went through an intermediate Type,
\* an ancestor of the result; the Type given is no ancestor
C7_Witness ==
  /\ last.op = "implement" /\ last.list /\ last.made = 2
  /\ last.child[1].kind = "type"
  /\ last.child[1].i \notin Ancestors(types, last.result)
  /\ (last.result - 1) \in Ancestors(types, last.result)

\* className of the prototype of a Type
ClassNameOf(ty) == ProtoGet(types, ty, "className").s

\* C9: the registry maps each className to the latest Type carrying it, and
\* to none when no Type carries it; a Type made from a definition without
\* className carries its parent's and takes its parent's entry.
C9_LastWriterWins ==
  /\ \A c \in ClassNames :
       LET carriers == {t \in 1..Len(types) : ClassNameOf(t) = c} IN
       IF carriers = {} THEN registry[c] = 0
       ELSE /\ registry[c] \in carriers
            /\ \A t \in carriers : t <= registry[c]
  /\ (last.op \in {"extend", "implement"} /\ ~last.list /\ last.result # 0
        /\ last.child[1].kind = "object"
        /\ ObjectOf(last.child[1].i)["className"] = Absent)
       => /\ ClassNameOf(last.result) = ClassNameOf(last.self)
          /\ registry[ClassNameOf(last.self)] = last.result

\* a Type named A was extended with a definition without className: the
\* new Type is the entry of A
C9_Witness ==
  /\ last.op = "extend" /\ last.result # 0
  /\ last.child[1].kind = "object"
  /\ ObjectOf(last.child[1].i)["className"] = Absent
  /\ ClassNameOf(last.self) = "A"
  /\ registry["A"] = last.result
  /\ last.registered = {"A"}

\* the calls of this.parent() made while the slot of Type ty ran, when
\* method key is invoked on a fresh instance of ty
ParentCallsAt(ty, key) ==
  LET c == IF key = "init" THEN ClassCtor(Heap, FALSE, ty, NoArgs).c
           ELSE CallFrom(Heap, NewCall(EmptyObject, ty), 0, key, NoArgs)
  IN {c.calls[i] : i \in {j \in DOMAIN c.calls :
                             c.calls[j].name = "parent" /\ c.calls[j].lvl = ty}}

\* C8: implement given a list extends the receiver by each item in list
\* order; the value of the last item defining a key is the one on the
\* result, a method of a later item reaches through this.parent() the
\* method of the earlier items it overrides, and an empty list returns the
\* receiver and registers nothing.
C8_ListIsSequentialExtension ==
  (last.op = "implement" /\ last.list /\ ~last.threw) =>
    LET R == last.result
        n == Len(last.child)
        o == Instantiate(Heap, last.child[n]).o
    IN /\ n = 0 => (R = last.self /\ last.made = 0 /\ last.registered = {})
       /\ n > 0 =>
            /\ last.made = n
            /\ \A j \in 1..n :
                 types[R - n + j].parent =
                   (IF j = 1 THEN last.self ELSE R - n + j - 1)
            /\ \A k \in ForIn(o) :
                 LET v == ChildGet(o, k)
                     got == types[R].own[k]
                 IN \/ got = v
                    \/ /\ IsFunction(v) /\ IsFunction(got)
                       /\ fns[got.n].kind = "wrap"
                       /\ fns[got.n].child = v.n
       /\ n > 1 =>
            \A k \in {"init", "m"} :
              (IsFunction(types[R].own[k]) /\ IsFunction(types[R - 1].own[k]))
                => \A e \in ParentCallsAt(R, k) :
                     Impl(e.callee) = Impl(types[R - 1].own[k].n)

====
